---- MODULE Spec2Model ----
(***************************************************************************)
(* Model of the spreadsheet preview/export page                            *)
(* (excel-extractor/src/app/page.tsx).                                     *)
(*                                                                         *)
(* A JavaScript string is a sequence of characters, each written as a      *)
(* short string (see "characters" below).  A cell or field value is a      *)
(* tagged record: a string, a number, or null/undefined.                   *)
(* A JavaScript object (a record of a sheet) is the sequence of its own    *)
(* properties in insertion order.                                          *)
(***************************************************************************)
EXTENDS Integers, Sequences, FiniteSets, TLC

(***************************** bounds **************************************)
\* header cells per generated header row, data rows per generated sheet
MaxCols == 2
MaxDataRows == 1
\* handleFile invocations awaiting their read at the same time
MaxPending == 2
\* cells per generated data row
MaxRowLen == 2
\* rows of the large sheet beyond the preview cap
ExtraRows == 1

(***************************** characters **********************************)
\* A character is written as itself when it is a printable ASCII character
\* other than the grave accent, as "\t", "\n", "\f", "\r" for these four
\* controls, and otherwise as "U+" followed by its code point in hexadecimal
\* (four digits or more).
HexDigits == <<"0","1","2","3","4","5","6","7","8","9","A","B","C","D","E","F">>

\* the characters U+0020 .. U+007E, in the order of their code points
AsciiChars ==
    <<" ","!","\"","#","$","%","&","'","(",")","*","+",",","-",".","/","0",
       "1","2","3","4","5","6","7","8","9",":",";","<","=",">","?","@","A",
       "B","C","D","E","F","G","H","I","J","K","L","M","N","O","P","Q","R",
       "S","T","U","V","W","X","Y","Z","[","\\","]","^","_","U+0060","a","b","c",
       "d","e","f","g","h","i","j","k","l","m","n","o","p","q","r","s","t",
       "u","v","w","x","y","z","{","|","}","~">>

RECURSIVE hexText(_, _)
hexText(n, width) ==
    IF n = 0 /\ width <= 0 THEN ""
    ELSE hexText(n \div 16, width - 1) \o HexDigits[(n % 16) + 1]

\* String.fromCodePoint
fromCodePoint(n) ==
    IF n \in 32..126 THEN AsciiChars[n - 31]
    ELSE IF n = 9 THEN "\t"
    ELSE IF n = 10 THEN "\n"
    ELSE IF n = 12 THEN "\f"
    ELSE IF n = 13 THEN "\r"
    ELSE "U+" \o hexText(n, 4)

\* the code point of a character written as "U+" and hexadecimal digits
hexDigitValue(d) == (CHOOSE k \in 1..16 : HexDigits[k] = d) - 1

RECURSIVE hexNumber(_, _)
hexNumber(c, k) ==
    IF k < 3 THEN 0
    ELSE 16 * hexNumber(c, k - 1) + hexDigitValue(SubSeq(c, k, k))

codePointOf(c) == hexNumber(c, Len(c))

\* A character beyond U+FFFF takes two UTF-16 code units, a high and a low
\* surrogate; a surrogate that stands alone is a character of the string.
isSupplementary(c) == Len(c) > 6
isHighSurrogate(c) == Len(c) = 6 /\ codePointOf(c) \in 55296..56319
isLowSurrogate(c)  == Len(c) = 6 /\ codePointOf(c) \in 56320..57343

\* the UTF-16 code units of a string, which is what a JavaScript string holds
RECURSIVE codeUnitsFrom(_, _)
codeUnitsFrom(s, i) ==
    IF i > Len(s) THEN <<>>
    ELSE (IF isSupplementary(s[i])
          THEN <<fromCodePoint(55296 + (codePointOf(s[i]) - 65536) \div 1024),
                 fromCodePoint(56320 + ((codePointOf(s[i]) - 65536) % 1024))>>
          ELSE <<s[i]>>)
         \o codeUnitsFrom(s, i + 1)

toCodeUnits(s) == codeUnitsFrom(s, 1)

\* the code points of a string: a high surrogate followed by a low one is
\* one character
RECURSIVE codePointsFrom(_, _)
codePointsFrom(s, i) ==
    IF i > Len(s) THEN <<>>
    ELSE IF i < Len(s) /\ isHighSurrogate(s[i]) /\ isLowSurrogate(s[i + 1])
    THEN <<fromCodePoint(65536 + (codePointOf(s[i]) - 55296) * 1024
                               + (codePointOf(s[i + 1]) - 56320))>>
         \o codePointsFrom(s, i + 2)
    ELSE <<s[i]>> \o codePointsFrom(s, i + 1)

toCodePoints(s) == codePointsFrom(s, 1)

\* the code points first, first + step, .. up to last
CodePoints(first, last, step) ==
    {n \in first..last : (n - first) % step = 0}

DigitChars == <<"0","1","2","3","4","5","6","7","8","9">>

\* ECMAScript WhiteSpace and LineTerminator: TAB, LF, VT, FF, CR, SP, NBSP,
\* U+1680, U+2000 .. U+200A, LS, PS, U+202F, U+205F, U+3000 and ZWNBSP
WhiteSpace ==
    {fromCodePoint(n) :
        n \in {9, 10, 11, 12, 13, 32, 160, 5760, 8232, 8233, 8239, 8287,
               12288, 65279} \cup 8192..8202}

\* The simple lower-case mappings of the Unicode Character Database (17.0), as
\* <<first, last, step, delta>>: each code point n of first, first + step,
\* .. last lower-cases to n + delta.
LowerCaseRanges ==
    {
      <<65, 90, 1, 32>>, <<192, 214, 1, 32>>, <<216, 222, 1, 32>>,
      <<256, 302, 2, 1>>, <<306, 310, 2, 1>>, <<313, 327, 2, 1>>,
      <<330, 374, 2, 1>>, <<376, 376, 1, -121>>, <<377, 381, 2, 1>>,
      <<385, 385, 1, 210>>, <<386, 388, 2, 1>>, <<390, 390, 1, 206>>,
      <<391, 391, 1, 1>>, <<393, 394, 1, 205>>, <<395, 395, 1, 1>>,
      <<398, 398, 1, 79>>, <<399, 399, 1, 202>>, <<400, 400, 1, 203>>,
      <<401, 401, 1, 1>>, <<403, 403, 1, 205>>, <<404, 404, 1, 207>>,
      <<406, 406, 1, 211>>, <<407, 407, 1, 209>>, <<408, 408, 1, 1>>,
      <<412, 412, 1, 211>>, <<413, 413, 1, 213>>, <<415, 415, 1, 214>>,
      <<416, 420, 2, 1>>, <<422, 422, 1, 218>>, <<423, 423, 1, 1>>,
      <<425, 425, 1, 218>>, <<428, 428, 1, 1>>, <<430, 430, 1, 218>>,
      <<431, 431, 1, 1>>, <<433, 434, 1, 217>>, <<435, 437, 2, 1>>,
      <<439, 439, 1, 219>>, <<440, 440, 1, 1>>, <<444, 444, 1, 1>>,
      <<452, 452, 1, 2>>, <<453, 453, 1, 1>>, <<455, 455, 1, 2>>,
      <<456, 456, 1, 1>>, <<458, 458, 1, 2>>, <<459, 475, 2, 1>>,
      <<478, 494, 2, 1>>, <<497, 497, 1, 2>>, <<498, 500, 2, 1>>,
      <<502, 502, 1, -97>>, <<503, 503, 1, -56>>, <<504, 542, 2, 1>>,
      <<544, 544, 1, -130>>, <<546, 562, 2, 1>>, <<570, 570, 1, 10795>>,
      <<571, 571, 1, 1>>, <<573, 573, 1, -163>>, <<574, 574, 1, 10792>>,
      <<577, 577, 1, 1>>, <<579, 579, 1, -195>>, <<580, 580, 1, 69>>,
      <<581, 581, 1, 71>>, <<582, 590, 2, 1>>, <<880, 882, 2, 1>>,
      <<886, 886, 1, 1>>, <<895, 895, 1, 116>>, <<902, 902, 1, 38>>,
      <<904, 906, 1, 37>>, <<908, 908, 1, 64>>, <<910, 911, 1, 63>>,
      <<913, 929, 1, 32>>, <<931, 939, 1, 32>>, <<975, 975, 1, 8>>,
      <<984, 1006, 2, 1>>, <<1012, 1012, 1, -60>>, <<1015, 1015, 1, 1>>,
      <<1017, 1017, 1, -7>>, <<1018, 1018, 1, 1>>, <<1021, 1023, 1, -130>>,
      <<1024, 1039, 1, 80>>, <<1040, 1071, 1, 32>>, <<1120, 1152, 2, 1>>,
      <<1162, 1214, 2, 1>>, <<1216, 1216, 1, 15>>, <<1217, 1229, 2, 1>>,
      <<1232, 1326, 2, 1>>, <<1329, 1366, 1, 48>>, <<4256, 4293, 1, 7264>>,
      <<4295, 4295, 1, 7264>>, <<4301, 4301, 1, 7264>>,
      <<5024, 5103, 1, 38864>>, <<5104, 5109, 1, 8>>, <<7305, 7305, 1, 1>>,
      <<7312, 7354, 1, -3008>>, <<7357, 7359, 1, -3008>>,
      <<7680, 7828, 2, 1>>, <<7838, 7838, 1, -7615>>, <<7840, 7934, 2, 1>>,
      <<7944, 7951, 1, -8>>, <<7960, 7965, 1, -8>>, <<7976, 7983, 1, -8>>,
      <<7992, 7999, 1, -8>>, <<8008, 8013, 1, -8>>, <<8025, 8031, 2, -8>>,
      <<8040, 8047, 1, -8>>, <<8072, 8079, 1, -8>>, <<8088, 8095, 1, -8>>,
      <<8104, 8111, 1, -8>>, <<8120, 8121, 1, -8>>, <<8122, 8123, 1, -74>>,
      <<8124, 8124, 1, -9>>, <<8136, 8139, 1, -86>>, <<8140, 8140, 1, -9>>,
      <<8152, 8153, 1, -8>>, <<8154, 8155, 1, -100>>, <<8168, 8169, 1, -8>>,
      <<8170, 8171, 1, -112>>, <<8172, 8172, 1, -7>>,
      <<8184, 8185, 1, -128>>, <<8186, 8187, 1, -126>>,
      <<8188, 8188, 1, -9>>, <<8486, 8486, 1, -7517>>,
      <<8490, 8490, 1, -8383>>, <<8491, 8491, 1, -8262>>,
      <<8498, 8498, 1, 28>>, <<8544, 8559, 1, 16>>, <<8579, 8579, 1, 1>>,
      <<9398, 9423, 1, 26>>, <<11264, 11311, 1, 48>>, <<11360, 11360, 1, 1>>,
      <<11362, 11362, 1, -10743>>, <<11363, 11363, 1, -3814>>,
      <<11364, 11364, 1, -10727>>, <<11367, 11371, 2, 1>>,
      <<11373, 11373, 1, -10780>>, <<11374, 11374, 1, -10749>>,
      <<11375, 11375, 1, -10783>>, <<11376, 11376, 1, -10782>>,
      <<11378, 11378, 1, 1>>, <<11381, 11381, 1, 1>>,
      <<11390, 11391, 1, -10815>>, <<11392, 11490, 2, 1>>,
      <<11499, 11501, 2, 1>>, <<11506, 11506, 1, 1>>, <<42560, 42604, 2, 1>>,
      <<42624, 42650, 2, 1>>, <<42786, 42798, 2, 1>>, <<42802, 42862, 2, 1>>,
      <<42873, 42875, 2, 1>>, <<42877, 42877, 1, -35332>>,
      <<42878, 42886, 2, 1>>, <<42891, 42891, 1, 1>>,
      <<42893, 42893, 1, -42280>>, <<42896, 42898, 2, 1>>,
      <<42902, 42920, 2, 1>>, <<42922, 42922, 1, -42308>>,
      <<42923, 42923, 1, -42319>>, <<42924, 42924, 1, -42315>>,
      <<42925, 42925, 1, -42305>>, <<42926, 42926, 1, -42308>>,
      <<42928, 42928, 1, -42258>>, <<42929, 42929, 1, -42282>>,
      <<42930, 42930, 1, -42261>>, <<42931, 42931, 1, 928>>,
      <<42932, 42946, 2, 1>>, <<42948, 42948, 1, -48>>,
      <<42949, 42949, 1, -42307>>, <<42950, 42950, 1, -35384>>,
      <<42951, 42953, 2, 1>>, <<42955, 42955, 1, -42343>>,
      <<42956, 42970, 2, 1>>, <<42972, 42972, 1, -42561>>,
      <<42997, 42997, 1, 1>>, <<65313, 65338, 1, 32>>,
      <<66560, 66599, 1, 40>>, <<66736, 66771, 1, 40>>,
      <<66928, 66938, 1, 39>>, <<66940, 66954, 1, 39>>,
      <<66956, 66962, 1, 39>>, <<66964, 66965, 1, 39>>,
      <<68736, 68786, 1, 64>>, <<68944, 68965, 1, 32>>,
      <<71840, 71871, 1, 32>>, <<93760, 93791, 1, 32>>,
      <<93856, 93880, 1, 27>>, <<125184, 125217, 1, 34>>
    }

LowerCasePairs ==
    UNION { { <<fromCodePoint(n), fromCodePoint(n + r[4])>> :
                n \in CodePoints(r[1], r[2], r[3]) } : r \in LowerCaseRanges }

\* the characters that have a lower-case mapping, and the mapping
HasLowerCase == {p[1] : p \in LowerCasePairs}

LowerCaseOf ==
    [c \in HasLowerCase |-> (CHOOSE p \in LowerCasePairs : p[1] = c)[2]]

\* The characters with the property Case_Ignorable, as <<first, last, step>>
CaseIgnorableRanges ==
    {
      <<39, 39, 1>>, <<46, 46, 1>>, <<58, 58, 1>>, <<94, 96, 2>>,
      <<168, 168, 1>>, <<173, 175, 2>>, <<180, 180, 1>>, <<183, 184, 1>>,
      <<688, 879, 1>>, <<884, 885, 1>>, <<890, 890, 1>>, <<900, 901, 1>>,
      <<903, 903, 1>>, <<1155, 1161, 1>>, <<1369, 1369, 1>>,
      <<1375, 1375, 1>>, <<1425, 1469, 1>>, <<1471, 1473, 2>>,
      <<1474, 1476, 2>>, <<1477, 1479, 2>>, <<1524, 1524, 1>>,
      <<1536, 1541, 1>>, <<1552, 1562, 1>>, <<1564, 1564, 1>>,
      <<1600, 1600, 1>>, <<1611, 1631, 1>>, <<1648, 1648, 1>>,
      <<1750, 1757, 1>>, <<1759, 1768, 1>>, <<1770, 1773, 1>>,
      <<1807, 1809, 2>>, <<1840, 1866, 1>>, <<1958, 1968, 1>>,
      <<2027, 2037, 1>>, <<2042, 2042, 1>>, <<2045, 2045, 1>>,
      <<2070, 2093, 1>>, <<2137, 2139, 1>>, <<2184, 2184, 1>>,
      <<2192, 2193, 1>>, <<2199, 2207, 1>>, <<2249, 2306, 1>>,
      <<2362, 2364, 2>>, <<2369, 2376, 1>>, <<2381, 2381, 1>>,
      <<2385, 2391, 1>>, <<2402, 2403, 1>>, <<2417, 2417, 1>>,
      <<2433, 2433, 1>>, <<2492, 2492, 1>>, <<2497, 2500, 1>>,
      <<2509, 2509, 1>>, <<2530, 2531, 1>>, <<2558, 2558, 1>>,
      <<2561, 2562, 1>>, <<2620, 2620, 1>>, <<2625, 2626, 1>>,
      <<2631, 2632, 1>>, <<2635, 2637, 1>>, <<2641, 2641, 1>>,
      <<2672, 2673, 1>>, <<2677, 2677, 1>>, <<2689, 2690, 1>>,
      <<2748, 2748, 1>>, <<2753, 2757, 1>>, <<2759, 2760, 1>>,
      <<2765, 2765, 1>>, <<2786, 2787, 1>>, <<2810, 2815, 1>>,
      <<2817, 2817, 1>>, <<2876, 2876, 1>>, <<2879, 2881, 2>>,
      <<2882, 2884, 1>>, <<2893, 2893, 1>>, <<2901, 2902, 1>>,
      <<2914, 2915, 1>>, <<2946, 2946, 1>>, <<3008, 3008, 1>>,
      <<3021, 3021, 1>>, <<3072, 3072, 1>>, <<3076, 3076, 1>>,
      <<3132, 3134, 2>>, <<3135, 3136, 1>>, <<3142, 3144, 1>>,
      <<3146, 3149, 1>>, <<3157, 3158, 1>>, <<3170, 3171, 1>>,
      <<3201, 3201, 1>>, <<3260, 3260, 1>>, <<3263, 3263, 1>>,
      <<3270, 3270, 1>>, <<3276, 3277, 1>>, <<3298, 3299, 1>>,
      <<3328, 3329, 1>>, <<3387, 3388, 1>>, <<3393, 3396, 1>>,
      <<3405, 3405, 1>>, <<3426, 3427, 1>>, <<3457, 3457, 1>>,
      <<3530, 3530, 1>>, <<3538, 3540, 1>>, <<3542, 3542, 1>>,
      <<3633, 3633, 1>>, <<3636, 3642, 1>>, <<3654, 3662, 1>>,
      <<3761, 3761, 1>>, <<3764, 3772, 1>>, <<3782, 3784, 2>>,
      <<3785, 3790, 1>>, <<3864, 3865, 1>>, <<3893, 3897, 2>>,
      <<3953, 3966, 1>>, <<3968, 3972, 1>>, <<3974, 3975, 1>>,
      <<3981, 3991, 1>>, <<3993, 4028, 1>>, <<4038, 4038, 1>>,
      <<4141, 4144, 1>>, <<4146, 4151, 1>>, <<4153, 4154, 1>>,
      <<4157, 4158, 1>>, <<4184, 4185, 1>>, <<4190, 4192, 1>>,
      <<4209, 4212, 1>>, <<4226, 4226, 1>>, <<4229, 4230, 1>>,
      <<4237, 4237, 1>>, <<4253, 4253, 1>>, <<4348, 4348, 1>>,
      <<4957, 4959, 1>>, <<5906, 5908, 1>>, <<5938, 5939, 1>>,
      <<5970, 5971, 1>>, <<6002, 6003, 1>>, <<6068, 6069, 1>>,
      <<6071, 6077, 1>>, <<6086, 6086, 1>>, <<6089, 6099, 1>>,
      <<6103, 6103, 1>>, <<6109, 6109, 1>>, <<6155, 6159, 1>>,
      <<6211, 6211, 1>>, <<6277, 6278, 1>>, <<6313, 6313, 1>>,
      <<6432, 6434, 1>>, <<6439, 6440, 1>>, <<6450, 6450, 1>>,
      <<6457, 6459, 1>>, <<6679, 6680, 1>>, <<6683, 6683, 1>>,
      <<6742, 6744, 2>>, <<6745, 6750, 1>>, <<6752, 6754, 2>>,
      <<6757, 6764, 1>>, <<6771, 6780, 1>>, <<6783, 6783, 1>>,
      <<6823, 6823, 1>>, <<6832, 6877, 1>>, <<6880, 6891, 1>>,
      <<6912, 6915, 1>>, <<6964, 6966, 2>>, <<6967, 6970, 1>>,
      <<6972, 6972, 1>>, <<6978, 6978, 1>>, <<7019, 7027, 1>>,
      <<7040, 7041, 1>>, <<7074, 7077, 1>>, <<7080, 7081, 1>>,
      <<7083, 7085, 1>>, <<7142, 7144, 2>>, <<7145, 7145, 1>>,
      <<7149, 7151, 2>>, <<7152, 7153, 1>>, <<7212, 7219, 1>>,
      <<7222, 7223, 1>>, <<7288, 7293, 1>>, <<7376, 7378, 1>>,
      <<7380, 7392, 1>>, <<7394, 7400, 1>>, <<7405, 7405, 1>>,
      <<7412, 7412, 1>>, <<7416, 7417, 1>>, <<7468, 7530, 1>>,
      <<7544, 7544, 1>>, <<7579, 7679, 1>>, <<8125, 8127, 2>>,
      <<8128, 8129, 1>>, <<8141, 8143, 1>>, <<8157, 8159, 1>>,
      <<8173, 8175, 1>>, <<8189, 8190, 1>>, <<8203, 8207, 1>>,
      <<8216, 8217, 1>>, <<8228, 8228, 1>>, <<8231, 8231, 1>>,
      <<8234, 8238, 1>>, <<8288, 8292, 1>>, <<8294, 8303, 1>>,
      <<8305, 8305, 1>>, <<8319, 8319, 1>>, <<8336, 8348, 1>>,
      <<8400, 8432, 1>>, <<11388, 11389, 1>>, <<11503, 11505, 1>>,
      <<11631, 11631, 1>>, <<11647, 11647, 1>>, <<11744, 11775, 1>>,
      <<11823, 11823, 1>>, <<12293, 12293, 1>>, <<12330, 12333, 1>>,
      <<12337, 12341, 1>>, <<12347, 12347, 1>>, <<12441, 12446, 1>>,
      <<12540, 12542, 1>>, <<40981, 40981, 1>>, <<42232, 42237, 1>>,
      <<42508, 42508, 1>>, <<42607, 42610, 1>>, <<42612, 42621, 1>>,
      <<42623, 42623, 1>>, <<42652, 42655, 1>>, <<42736, 42737, 1>>,
      <<42752, 42785, 1>>, <<42864, 42864, 1>>, <<42888, 42890, 1>>,
      <<42993, 42996, 1>>, <<43000, 43001, 1>>, <<43010, 43010, 1>>,
      <<43014, 43014, 1>>, <<43019, 43019, 1>>, <<43045, 43046, 1>>,
      <<43052, 43052, 1>>, <<43204, 43205, 1>>, <<43232, 43249, 1>>,
      <<43263, 43263, 1>>, <<43302, 43309, 1>>, <<43335, 43345, 1>>,
      <<43392, 43394, 1>>, <<43443, 43443, 1>>, <<43446, 43449, 1>>,
      <<43452, 43453, 1>>, <<43471, 43471, 1>>, <<43493, 43494, 1>>,
      <<43561, 43566, 1>>, <<43569, 43570, 1>>, <<43573, 43574, 1>>,
      <<43587, 43587, 1>>, <<43596, 43596, 1>>, <<43632, 43632, 1>>,
      <<43644, 43644, 1>>, <<43696, 43698, 2>>, <<43699, 43700, 1>>,
      <<43703, 43704, 1>>, <<43710, 43711, 1>>, <<43713, 43713, 1>>,
      <<43741, 43741, 1>>, <<43756, 43757, 1>>, <<43763, 43764, 1>>,
      <<43766, 43766, 1>>, <<43867, 43871, 1>>, <<43881, 43883, 1>>,
      <<44005, 44005, 1>>, <<44008, 44008, 1>>, <<44013, 44013, 1>>,
      <<64286, 64286, 1>>, <<64434, 64450, 1>>, <<65024, 65039, 1>>,
      <<65043, 65043, 1>>, <<65056, 65071, 1>>, <<65106, 65106, 1>>,
      <<65109, 65109, 1>>, <<65279, 65279, 1>>, <<65287, 65287, 1>>,
      <<65294, 65294, 1>>, <<65306, 65306, 1>>, <<65342, 65344, 2>>,
      <<65392, 65392, 1>>, <<65438, 65439, 1>>, <<65507, 65507, 1>>,
      <<65529, 65531, 1>>, <<66045, 66045, 1>>, <<66272, 66272, 1>>,
      <<66422, 66426, 1>>, <<67456, 67461, 1>>, <<67463, 67504, 1>>,
      <<67506, 67514, 1>>, <<68097, 68099, 1>>, <<68101, 68102, 1>>,
      <<68108, 68111, 1>>, <<68152, 68154, 1>>, <<68159, 68159, 1>>,
      <<68325, 68326, 1>>, <<68900, 68903, 1>>, <<68942, 68942, 1>>,
      <<68969, 68973, 1>>, <<68975, 68975, 1>>, <<69291, 69292, 1>>,
      <<69317, 69317, 1>>, <<69370, 69375, 1>>, <<69446, 69456, 1>>,
      <<69506, 69509, 1>>, <<69633, 69633, 1>>, <<69688, 69702, 1>>,
      <<69744, 69744, 1>>, <<69747, 69748, 1>>, <<69759, 69761, 1>>,
      <<69811, 69814, 1>>, <<69817, 69818, 1>>, <<69821, 69821, 1>>,
      <<69826, 69826, 1>>, <<69837, 69837, 1>>, <<69888, 69890, 1>>,
      <<69927, 69931, 1>>, <<69933, 69940, 1>>, <<70003, 70003, 1>>,
      <<70016, 70017, 1>>, <<70070, 70078, 1>>, <<70089, 70092, 1>>,
      <<70095, 70095, 1>>, <<70191, 70193, 1>>, <<70196, 70198, 2>>,
      <<70199, 70199, 1>>, <<70206, 70206, 1>>, <<70209, 70209, 1>>,
      <<70367, 70367, 1>>, <<70371, 70378, 1>>, <<70400, 70401, 1>>,
      <<70459, 70460, 1>>, <<70464, 70464, 1>>, <<70502, 70508, 1>>,
      <<70512, 70516, 1>>, <<70587, 70592, 1>>, <<70606, 70610, 2>>,
      <<70625, 70626, 1>>, <<70712, 70719, 1>>, <<70722, 70724, 1>>,
      <<70726, 70726, 1>>, <<70750, 70750, 1>>, <<70835, 70840, 1>>,
      <<70842, 70842, 1>>, <<70847, 70848, 1>>, <<70850, 70851, 1>>,
      <<71090, 71093, 1>>, <<71100, 71101, 1>>, <<71103, 71104, 1>>,
      <<71132, 71133, 1>>, <<71219, 71226, 1>>, <<71229, 71231, 2>>,
      <<71232, 71232, 1>>, <<71339, 71341, 2>>, <<71344, 71349, 1>>,
      <<71351, 71351, 1>>, <<71453, 71455, 2>>, <<71458, 71461, 1>>,
      <<71463, 71467, 1>>, <<71727, 71735, 1>>, <<71737, 71738, 1>>,
      <<71995, 71996, 1>>, <<71998, 71998, 1>>, <<72003, 72003, 1>>,
      <<72148, 72151, 1>>, <<72154, 72155, 1>>, <<72160, 72160, 1>>,
      <<72193, 72202, 1>>, <<72243, 72248, 1>>, <<72251, 72254, 1>>,
      <<72263, 72263, 1>>, <<72273, 72278, 1>>, <<72281, 72283, 1>>,
      <<72330, 72342, 1>>, <<72344, 72345, 1>>, <<72544, 72546, 2>>,
      <<72547, 72548, 1>>, <<72550, 72550, 1>>, <<72752, 72758, 1>>,
      <<72760, 72765, 1>>, <<72767, 72767, 1>>, <<72850, 72871, 1>>,
      <<72874, 72880, 1>>, <<72882, 72883, 1>>, <<72885, 72886, 1>>,
      <<73009, 73014, 1>>, <<73018, 73020, 2>>, <<73021, 73023, 2>>,
      <<73024, 73029, 1>>, <<73031, 73031, 1>>, <<73104, 73105, 1>>,
      <<73109, 73111, 2>>, <<73177, 73177, 1>>, <<73459, 73460, 1>>,
      <<73472, 73473, 1>>, <<73526, 73530, 1>>, <<73536, 73538, 2>>,
      <<73562, 73562, 1>>, <<78896, 78912, 1>>, <<78919, 78933, 1>>,
      <<90398, 90409, 1>>, <<90413, 90415, 1>>, <<92912, 92916, 1>>,
      <<92976, 92982, 1>>, <<92992, 92995, 1>>, <<93504, 93506, 1>>,
      <<93547, 93548, 1>>, <<94031, 94031, 1>>, <<94095, 94111, 1>>,
      <<94176, 94177, 1>>, <<94179, 94180, 1>>, <<94194, 94195, 1>>,
      <<110576, 110579, 1>>, <<110581, 110587, 1>>, <<110589, 110590, 1>>,
      <<113821, 113822, 1>>, <<113824, 113827, 1>>, <<118528, 118573, 1>>,
      <<118576, 118598, 1>>, <<119143, 119145, 1>>, <<119155, 119170, 1>>,
      <<119173, 119179, 1>>, <<119210, 119213, 1>>, <<119362, 119364, 1>>,
      <<121344, 121398, 1>>, <<121403, 121452, 1>>, <<121461, 121461, 1>>,
      <<121476, 121476, 1>>, <<121499, 121503, 1>>, <<121505, 121519, 1>>,
      <<122880, 122886, 1>>, <<122888, 122904, 1>>, <<122907, 122913, 1>>,
      <<122915, 122916, 1>>, <<122918, 122922, 1>>, <<122928, 122989, 1>>,
      <<123023, 123023, 1>>, <<123184, 123197, 1>>, <<123566, 123566, 1>>,
      <<123628, 123631, 1>>, <<124139, 124143, 1>>, <<124398, 124399, 1>>,
      <<124643, 124643, 1>>, <<124646, 124646, 1>>, <<124654, 124655, 1>>,
      <<124661, 124661, 1>>, <<124671, 124671, 1>>, <<125136, 125142, 1>>,
      <<125252, 125259, 1>>, <<127995, 127999, 1>>, <<917505, 917505, 1>>,
      <<917536, 917631, 1>>, <<917760, 917999, 1>>
    }

CaseIgnorable ==
    UNION { {fromCodePoint(n) : n \in CodePoints(r[1], r[2], r[3])} :
              r \in CaseIgnorableRanges }

\* The characters with the property Cased that are not Case_Ignorable (the
\* test below passes over the case-ignorable ones before it asks for Cased)
CasedRanges ==
    {
      <<65, 90, 1>>, <<97, 122, 1>>, <<170, 170, 1>>, <<181, 181, 1>>,
      <<186, 186, 1>>, <<192, 214, 1>>, <<216, 246, 1>>, <<248, 442, 1>>,
      <<444, 447, 1>>, <<452, 659, 1>>, <<662, 687, 1>>, <<880, 883, 1>>,
      <<886, 887, 1>>, <<891, 893, 1>>, <<895, 895, 1>>, <<902, 904, 2>>,
      <<905, 906, 1>>, <<908, 910, 2>>, <<911, 929, 1>>, <<931, 1013, 1>>,
      <<1015, 1153, 1>>, <<1162, 1327, 1>>, <<1329, 1366, 1>>,
      <<1376, 1416, 1>>, <<4256, 4293, 1>>, <<4295, 4295, 1>>,
      <<4301, 4301, 1>>, <<4304, 4346, 1>>, <<4349, 4351, 1>>,
      <<5024, 5109, 1>>, <<5112, 5117, 1>>, <<7296, 7306, 1>>,
      <<7312, 7354, 1>>, <<7357, 7359, 1>>, <<7424, 7467, 1>>,
      <<7531, 7543, 1>>, <<7545, 7578, 1>>, <<7680, 7957, 1>>,
      <<7960, 7965, 1>>, <<7968, 8005, 1>>, <<8008, 8013, 1>>,
      <<8016, 8023, 1>>, <<8025, 8031, 2>>, <<8032, 8061, 1>>,
      <<8064, 8116, 1>>, <<8118, 8124, 1>>, <<8126, 8126, 1>>,
      <<8130, 8132, 1>>, <<8134, 8140, 1>>, <<8144, 8147, 1>>,
      <<8150, 8155, 1>>, <<8160, 8172, 1>>, <<8178, 8180, 1>>,
      <<8182, 8188, 1>>, <<8450, 8450, 1>>, <<8455, 8455, 1>>,
      <<8458, 8467, 1>>, <<8469, 8469, 1>>, <<8473, 8477, 1>>,
      <<8484, 8490, 2>>, <<8491, 8493, 1>>, <<8495, 8500, 1>>,
      <<8505, 8505, 1>>, <<8508, 8511, 1>>, <<8517, 8521, 1>>,
      <<8526, 8526, 1>>, <<8544, 8575, 1>>, <<8579, 8580, 1>>,
      <<9398, 9449, 1>>, <<11264, 11387, 1>>, <<11390, 11492, 1>>,
      <<11499, 11502, 1>>, <<11506, 11507, 1>>, <<11520, 11557, 1>>,
      <<11559, 11559, 1>>, <<11565, 11565, 1>>, <<42560, 42605, 1>>,
      <<42624, 42651, 1>>, <<42786, 42863, 1>>, <<42865, 42887, 1>>,
      <<42891, 42894, 1>>, <<42896, 42972, 1>>, <<42997, 42998, 1>>,
      <<43002, 43002, 1>>, <<43824, 43866, 1>>, <<43872, 43880, 1>>,
      <<43888, 43967, 1>>, <<64256, 64262, 1>>, <<64275, 64279, 1>>,
      <<65313, 65338, 1>>, <<65345, 65370, 1>>, <<66560, 66639, 1>>,
      <<66736, 66771, 1>>, <<66776, 66811, 1>>, <<66928, 66938, 1>>,
      <<66940, 66954, 1>>, <<66956, 66962, 1>>, <<66964, 66965, 1>>,
      <<66967, 66977, 1>>, <<66979, 66993, 1>>, <<66995, 67001, 1>>,
      <<67003, 67004, 1>>, <<68736, 68786, 1>>, <<68800, 68850, 1>>,
      <<68944, 68965, 1>>, <<68976, 68997, 1>>, <<71840, 71903, 1>>,
      <<93760, 93823, 1>>, <<93856, 93880, 1>>, <<93883, 93907, 1>>,
      <<119808, 119892, 1>>, <<119894, 119964, 1>>, <<119966, 119967, 1>>,
      <<119970, 119970, 1>>, <<119973, 119974, 1>>, <<119977, 119980, 1>>,
      <<119982, 119993, 1>>, <<119995, 119997, 2>>, <<119998, 120003, 1>>,
      <<120005, 120069, 1>>, <<120071, 120074, 1>>, <<120077, 120084, 1>>,
      <<120086, 120092, 1>>, <<120094, 120121, 1>>, <<120123, 120126, 1>>,
      <<120128, 120132, 1>>, <<120134, 120134, 1>>, <<120138, 120144, 1>>,
      <<120146, 120485, 1>>, <<120488, 120512, 1>>, <<120514, 120538, 1>>,
      <<120540, 120570, 1>>, <<120572, 120596, 1>>, <<120598, 120628, 1>>,
      <<120630, 120654, 1>>, <<120656, 120686, 1>>, <<120688, 120712, 1>>,
      <<120714, 120744, 1>>, <<120746, 120770, 1>>, <<120772, 120779, 1>>,
      <<122624, 122633, 1>>, <<122635, 122654, 1>>, <<122661, 122666, 1>>,
      <<125184, 125251, 1>>, <<127280, 127305, 1>>, <<127312, 127337, 1>>,
      <<127344, 127369, 1>>
    }

CasedLetters ==
    UNION { {fromCodePoint(n) : n \in CodePoints(r[1], r[2], r[3])} :
              r \in CasedRanges }

CapitalSigma     == fromCodePoint(931)
SmallSigma       == fromCodePoint(963)
SmallFinalSigma  == fromCodePoint(962)
CapitalIWithDot  == fromCodePoint(304)
CombiningDot     == fromCodePoint(775)

(***************************** strings *************************************)
\* the lower-case mapping of a character taken by itself: one character, or
\* two for the capital I with dot above
toLowerCaseChar(c) ==
    IF c = CapitalIWithDot THEN <<"i", CombiningDot>>
    ELSE IF c \in HasLowerCase THEN <<LowerCaseOf[c]>>
    ELSE <<c>>

\* the condition Final_Sigma of SpecialCasing: a cased letter stands before
\* position i and none after it, case-ignorable characters passed over
isFinalSigma(s, i) ==
    LET before == {j \in 1..(i - 1) : s[j] \notin CaseIgnorable}
        after  == {j \in (i + 1)..Len(s) : s[j] \notin CaseIgnorable}
    IN  /\ before # {}
        /\ s[CHOOSE j \in before : \A k \in before : k <= j] \in CasedLetters
        /\ \/ after = {}
           \/ s[CHOOSE j \in after : \A k \in after : j <= k] \notin CasedLetters

\* the lower-case mapping of the character at position i of s; the capital
\* sigma depends on its context
lowerCaseAt(s, i) ==
    IF s[i] = CapitalSigma
    THEN <<IF isFinalSigma(s, i) THEN SmallFinalSigma ELSE SmallSigma>>
    ELSE toLowerCaseChar(s[i])

RECURSIVE lowerCaseFrom(_, _)
lowerCaseFrom(s, i) ==
    IF i > Len(s) THEN <<>>
    ELSE lowerCaseAt(s, i) \o lowerCaseFrom(s, i + 1)

\* String.prototype.toLowerCase
toLowerCase(s) == lowerCaseFrom(toCodePoints(s), 1)

\* String.prototype.endsWith
endsWith(s, suffix) ==
    LET units == toCodeUnits(s)
        tail  == toCodeUnits(suffix)
    IN  /\ Len(tail) <= Len(units)
        /\ SubSeq(units, Len(units) - Len(tail) + 1, Len(units)) = tail

\* String.prototype.includes
includes(s, t) ==
    LET units == toCodeUnits(s)
        part  == toCodeUnits(t)
    IN  \E i \in 1..(Len(units) - Len(part) + 1) :
            SubSeq(units, i, i + Len(part) - 1) = part


\* String.prototype.trim
trim(s) ==
    LET keep == {i \in 1..Len(s) : s[i] \notin WhiteSpace}
    IN  IF keep = {} THEN <<>>
        ELSE SubSeq(s, CHOOSE i \in keep : \A j \in keep : i <= j,
                       CHOOSE i \in keep : \A j \in keep : j <= i)

\* Number.prototype.toString for a non-negative integer
RECURSIVE numberToString(_)
numberToString(n) ==
    IF n < 10 THEN <<DigitChars[n + 1]>>
    ELSE numberToString(n \div 10) \o <<DigitChars[(n % 10) + 1]>>

(***************************** values **************************************)
Str(s) == [t |-> "string", s |-> s, n |-> 0]
Num(n) == [t |-> "number", s |-> <<>>, n |-> n]
Nil    == [t |-> "nullish", s |-> <<>>, n |-> 0]

\* value.toString() of a string or a number
toString(v) == IF v.t = "number" THEN numberToString(v.n) ELSE v.s

\* the empty string, as a value
emptyString == Str(<<>>)

(***************************** objects *************************************)
ProtoKey == <<"_","_","p","r","o","t","o","_","_">>

\* record[key] = value on an object literal, for a string or number value:
\* an existing property keeps its place and a new one is added last; the key
\* "__proto__" reaches the setter of Object.prototype, which ignores a value
\* that is neither an object nor null, so no property is made
setProperty(record, key, value) ==
    IF key = ProtoKey THEN record
    ELSE IF \E i \in 1..Len(record) : record[i].key = key
    THEN [i \in 1..Len(record) |->
            IF record[i].key = key THEN [key |-> key, value |-> value]
            ELSE record[i]]
    ELSE Append(record, [key |-> key, value |-> value])

digitOf(c) == CHOOSE d \in 0..9 : DigitChars[d + 1] = c

isDigits(key) == \A i \in 1..Len(key) : \E d \in 1..10 : DigitChars[d] = key[i]

\* numeric order of two digit strings without leading zeros
numericLess(a, b) ==
    \/ Len(a) < Len(b)
    \/ /\ Len(a) = Len(b)
       /\ \E i \in 1..Len(a) :
            /\ SubSeq(a, 1, i - 1) = SubSeq(b, 1, i - 1)
            /\ digitOf(a[i]) < digitOf(b[i])

\* 2^32 - 1, the first integer that is no array index
MaxIndexText == <<"4","2","9","4","9","6","7","2","9","5">>

\* a canonical array index: such keys are enumerated first, ascending
isArrayIndex(key) ==
    /\ Len(key) >= 1
    /\ isDigits(key)
    /\ (Len(key) > 1 => key[1] # "0")
    /\ numericLess(key, MaxIndexText)

\* the own properties of an object in enumeration order
ownProperties(record) ==
    LET ints   == {i \in 1..Len(record) : isArrayIndex(record[i].key)}
        rank(i) == Cardinality({j \in ints :
                      numericLess(record[j].key, record[i].key)}) + 1
        others == SelectSeq(record, LAMBDA e : ~isArrayIndex(e.key))
    IN  [r \in 1..Cardinality(ints) |-> record[CHOOSE i \in ints : rank(i) = r]]
        \o others

\* Object.keys, Object.values
objectKeys(record)   == [i \in 1..Len(record) |-> ownProperties(record)[i].key]
objectValues(record) == [i \in 1..Len(record) |-> ownProperties(record)[i].value]

(***************************** buildSheetData ******************************)
ColumnLabel == <<"C","o","l","u","m","n"," ">>

\* faulty variant: the synthetic label counts from 0
headerOfZeroBased(cell, index) ==
    LET text == IF cell.t = "nullish" THEN <<>> ELSE trim(toString(cell))
    IN  IF text # <<>> THEN text ELSE ColumnLabel \o numberToString(index)

\* cell?.toString()?.trim() || `Column ${index + 1}`   (index is 0-based)
headerOf(cell, index) ==
    LET text == IF cell.t = "nullish" THEN <<>> ELSE trim(toString(cell))
    IN  IF text # <<>> THEN text ELSE ColumnLabel \o numberToString(index + 1)

\* row[index] ?? ""   (index is 0-based)
cellOrDefault(row, index) ==
    IF index + 1 <= Len(row) /\ row[index + 1].t # "nullish"
    THEN row[index + 1]
    ELSE emptyString

\* headers.forEach((header, index) => { record[header] = row[index] ?? "" })
RECURSIVE fillRecord(_, _, _, _)
fillRecord(headers, row, index, record) ==
    IF index >= Len(headers) THEN record
    ELSE fillRecord(headers, row, index + 1,
                    setProperty(record, headers[index + 1], cellOrDefault(row, index)))

buildRecord(headers, row) == fillRecord(headers, row, 0, <<>>)

buildHeaders(headerRow) ==
    [i \in 1..Len(headerRow) |-> headerOf(headerRow[i], i - 1)]

\* one sheet: name and the rows sheet_to_json(sheet, {header: 1}) decoded
buildSheet(name, rawRows) ==
    IF Len(rawRows) = 0
    THEN [name |-> name, headers |-> <<>>, rows |-> <<>>,
          rowCount |-> 0, columnCount |-> 0]
    ELSE LET headerRow == Head(rawRows)
             dataRows  == Tail(rawRows)
             headers   == buildHeaders(headerRow)
             rows      == [i \in 1..Len(dataRows) |-> buildRecord(headers, dataRows[i])]
         IN  [name |-> name, headers |-> headers, rows |-> rows,
              rowCount |-> Len(rows), columnCount |-> Len(headers)]

\* workbook.SheetNames.map(...)
buildSheetData(workbook) ==
    [k \in 1..Len(workbook.SheetNames) |->
        buildSheet(workbook.SheetNames[k], workbook.Sheets[workbook.SheetNames[k]])]

(***************************** file type ***********************************)
allowedExtensions ==
    << <<".","x","l","s","x">>, <<".","x","l","s">>,
       <<".","c","s","v">>,     <<".","o","d","s">> >>

maxRowsPreview == 200

\* faulty variant: the extension may stand anywhere in the name
isValidFileTypeAnywhere(file) ==
    \E e \in 1..Len(allowedExtensions) :
        includes(toLowerCase(file.name), allowedExtensions[e])

isValidFileType(file) ==
    \E e \in 1..Len(allowedExtensions) :
        endsWith(toLowerCase(file.name), allowedExtensions[e])

(***************************** files ****************************************)
\* A File: its name, whether XLSX.read decodes its bytes, and the workbook
\* decoded from them (sheet names in order; per sheet the rows that
\* sheet_to_json(sheet, {header: 1, raw: false, defval: ""}) returns).
SeqsUpTo(S, n) == UNION {[1..k -> S] : k \in 0..n}

Workbook(names, sheets) == [SheetNames |-> names, Sheets |-> sheets]

File(name, decodes, workbook) ==
    [name |-> name, decodes |-> decodes, workbook |-> workbook]

NoSheets == Workbook(<<>>, <<>>)

CitiesRows ==
    << <<Str(<<"N","a","m","e">>), Str(<<>>), Str(<<"A","g","e">>)>>,
       <<Str(<<"D","e","l","h","i">>), Str(<<"U+1F600","n","o","r","t","h">>), Num(7)>>,
       <<Str(<<"U+00C9","c","o","l","e">>)>> >>

NotesRows ==
    << <<Str(<<" ","N","a","m","e"," ">>), Str(<<"N","a","m","e">>),
         Str(<<"C","i","t","y">>)>>,
       <<Str(<<"x">>), Str(<<"a",",","b">>), Str(<<"D","E","L","H","I">>)>>,
       <<Str(<<"U+039F","U+03A3">>), Nil>>,
       <<Str(<<"r","3">>), Str(<<"r","3">>), Str(<<"U+0391","U+10EC5","U+03A3">>)>>,
       <<Str(<<"r","4">>), Str(<<"r","4">>), Str(<<"U+0391","U+1171E","U+03A3">>)>>,
       <<Str(<<"r","5">>), Str(<<"r","5">>), Str(<<"U+1C89","U+03A3">>)>>,
       <<Str(<<"r","6">>), Str(<<"r","6">>), Str(<<"U+0295","U+03A3">>)>> >>

BigRows ==
    << <<Str(<<"i","d">>)>> >>
    \o [i \in 1..(maxRowsPreview + ExtraRows) |-> <<Num(1000 + i)>>]

CitiesName == <<"C","i","t","i","e","s">>
NotesName  == <<"N","o","t","e","s">>
Sheet1Name == <<"S","h","e","e","t","1">>

DataFile ==
    File(<<"d","a","t","a",".","X","L","S","X">>, TRUE,
         Workbook(<<CitiesName, NotesName>>,
                  (CitiesName :> CitiesRows) @@ (NotesName :> NotesRows)))

BigFile ==
    File(<<"b","i","g",".","c","s","v">>, TRUE,
         Workbook(<<Sheet1Name>>, (Sheet1Name :> BigRows)))

NoSheetsFile == File(<<"n","o","n","e",".","o","d","s">>, TRUE, NoSheets)

BlankFile ==
    File(<<"b","l","a","n","k",".","x","l","s">>, TRUE,
         Workbook(<<Sheet1Name>>, (Sheet1Name :> <<>>)))

BadFile == File(<<"b","a","d",".","x","l","s","x">>, FALSE, NoSheets)

PdfFile == File(<<"r","e","p","o","r","t",".","p","d","f">>, TRUE, NoSheets)

TxtFile ==
    File(<<"a",".","c","s","v",".","t","x","t">>, TRUE,
         Workbook(<<Sheet1Name>>, (Sheet1Name :> CitiesRows)))

\* the files the user picks or drops
UploadFiles ==
    {DataFile, NoSheetsFile, BlankFile, BadFile, PdfFile, TxtFile}

\* the files of a user who works on the sheet that exceeds the preview
LargeFiles == {BigFile, DataFile}

\* the values typed into the search box
SearchTerms == { <<>>, <<"d","e","l","h","i">> }

LargeSearchTerms ==
    SearchTerms \cup { <<"D","e","l","h","i">>, <<"1">>, <<"U+00E9">>, <<"U+03A3">>,
                      <<"U+D83D">> }

\* generated single-sheet workbooks: the sheet without rows, every header
\* row and data rows over small pools of cells, and the two sheets above
HeaderCells ==
    { Nil, Str(<<>>), Str(<<"U+00A0">>), Str(<<"N","a","m","e">>),
      Str(<<"A","g","e">>), Str(<<"U+00A0","A","g","e"," ">>), Str(ProtoKey) }

DataCells == { Nil, Str(<<"x">>) }

GeneratedRows ==
    { <<>>, CitiesRows, NotesRows } \cup
    { <<h>> \o d : h \in SeqsUpTo(HeaderCells, MaxCols),
                   d \in SeqsUpTo(SeqsUpTo(DataCells, MaxRowLen), MaxDataRows) }

GeneratedFiles ==
    { File(<<"g",".","c","s","v">>, TRUE, Workbook(<<Sheet1Name>>, (Sheet1Name :> r)))
        : r \in GeneratedRows }

(***************************** state ****************************************)
VARIABLES
    selectedSheets,    \* useState<SheetRows[]>([])
    activeSheetIndex,  \* useState(0), 0-based
    fileMeta,          \* useState<File | null>(null)
    error,             \* useState<UploadError | null>(null)
    searchTerm,        \* useState("")
    pending,           \* handleFile invocations awaiting readFileAsArrayBuffer,
                       \* in the order they were started; overtaken: an
                       \* invocation started later has already completed
    appliedLate,       \* the outcome written last came from an overtaken invocation
    downloaded         \* the last file handed to the browser for download

vars == <<selectedSheets, activeSheetIndex, fileMeta, error, searchTerm,
          pending, appliedLate, downloaded>>

null == [null |-> TRUE]
undefined == [undefined |-> TRUE]

\* the three error panels (titles and details are in Hindi in the source)
InvalidTypeError ==
    [title |-> "wrong file format", detail |-> "choose one of: .xlsx, .xls, .csv, .ods"]
EmptyDataError ==
    [title |-> "no data found", detail |-> "no readable data in this file"]
ReadFailedError(message) == [title |-> "reading failed", detail |-> message]

readErrorMessage == "error while reading the file"
decodeErrorMessage == "decoder rejected the file"

\* const currentSheet = selectedSheets[activeSheetIndex]
currentSheet ==
    IF activeSheetIndex + 1 \in 1..Len(selectedSheets)
    THEN selectedSheets[activeSheetIndex + 1]
    ELSE undefined

(***************************** preview *************************************)
\* Array.prototype.slice(start, end)
slice(seq, start, end) ==
    SubSeq(seq, start + 1, IF end < Len(seq) THEN end ELSE Len(seq))

\* Object.values(row).some((value) =>
\*     value?.toString().toLowerCase().includes(term))
rowMatches(row, term) ==
    \E m \in 1..Len(objectValues(row)) :
        LET value == objectValues(row)[m]
        IN  /\ value.t # "nullish"
            /\ includes(toLowerCase(toString(value)), term)

\* faulty variant: the rows found by a search are not cut to the preview size
filterRowsUncappedSearch(sheet, search) ==
    IF sheet = undefined THEN <<>>
    ELSE IF search = <<>> THEN slice(sheet.rows, 0, maxRowsPreview)
    ELSE SelectSeq(sheet.rows, LAMBDA row : rowMatches(row, toLowerCase(search)))

\* the useMemo value filteredRows
filterRows(sheet, search) ==
    IF sheet = undefined THEN <<>>
    ELSE IF search = <<>> THEN slice(sheet.rows, 0, maxRowsPreview)
    ELSE slice(SelectSeq(sheet.rows,
                         LAMBDA row : rowMatches(row, toLowerCase(search))),
               0, maxRowsPreview)

filteredRows == filterRows(currentSheet, searchTerm)

(***************************** exports *************************************)
\* a value as JSON.stringify writes it: a quoted string or a number literal
jsonValue(v) ==
    IF v.t = "number" THEN [json |-> "number", text |-> numberToString(v.n)]
    ELSE [json |-> "string", text |-> v.s]

\* JSON.stringify(rows, null, 2): an array of objects, each with its members
\* in enumeration order
jsonStringify(rows) ==
    [i \in 1..Len(rows) |->
        [m \in 1..Len(rows[i]) |->
            [key   |-> ownProperties(rows[i])[m].key,
             value |-> jsonValue(ownProperties(rows[i])[m].value)]]]

\* downloadAsJson: the blob and the name of the link that is clicked
downloadAsJson(sheet) ==
    [download |-> sheet.name \o <<".","j","s","o","n">>,
     type     |-> "application/json",
     body     |-> jsonStringify(sheet.rows)]

\* XLSX.utils.json_to_sheet: the columns are the keys in order of first
\* appearance over the rows
RECURSIVE addKeys(_, _)
addKeys(hdr, keys) ==
    IF keys = <<>> THEN hdr
    ELSE addKeys(IF \E c \in 1..Len(hdr) : hdr[c] = Head(keys)
                 THEN hdr ELSE Append(hdr, Head(keys)),
                 Tail(keys))

\* (the rows are folded by halves: the columns of the first half, then the
\* new keys of the second half)
RECURSIVE sheetColumns(_)
sheetColumns(rows) ==
    IF rows = <<>> THEN <<>>
    ELSE IF Len(rows) = 1 THEN addKeys(<<>>, objectKeys(rows[1]))
    ELSE addKeys(sheetColumns(SubSeq(rows, 1, Len(rows) \div 2)),
                 sheetColumns(SubSeq(rows, Len(rows) \div 2 + 1, Len(rows))))

RECURSIVE doubleQuotes(_)
doubleQuotes(text) ==
    IF text = <<>> THEN <<>>
    ELSE (IF Head(text) = "\"" THEN <<"\"", "\"">> ELSE <<Head(text)>>)
         \o doubleQuotes(Tail(text))

\* XLSX.utils.sheet_to_csv: one field, quoted when it holds a separator,
\* a quote or a line break
csvField(text) ==
    IF \E i \in 1..Len(text) : text[i] \in {",", "\"", "\n"}
    THEN <<"\"">> \o doubleQuotes(text) \o <<"\"">>
    ELSE text

\* the field of a record in the column of a key ("" when it has no such key)
csvCell(record, key) ==
    IF \E m \in 1..Len(record) : record[m].key = key
    THEN csvField(toString(record[CHOOSE m \in 1..Len(record) : record[m].key = key].value))
    ELSE <<>>

\* sheet_to_csv(json_to_sheet(rows)): the header line, then a line per record
sheetToCsv(rows) ==
    LET hdr == sheetColumns(rows)
    IN  <<[c \in 1..Len(hdr) |-> csvField(hdr[c])]>>
        \o [i \in 1..Len(rows) |-> [c \in 1..Len(hdr) |-> csvCell(rows[i], hdr[c])]]

\* faulty variant: the CSV export takes the rows of the preview
downloadPreviewAsCsv(sheet) ==
    [download |-> sheet.name \o <<".","c","s","v">>,
     type     |-> "text/csv",
     body     |-> sheetToCsv(filterRows(sheet, searchTerm))]

\* downloadAsCsv
downloadAsCsv(sheet) ==
    [download |-> sheet.name \o <<".","c","s","v">>,
     type     |-> "text/csv",
     body     |-> sheetToCsv(sheet.rows)]

(***************************** handlers ************************************)
Init ==
    /\ selectedSheets = <<>>
    /\ activeSheetIndex = 0
    /\ fileMeta = null
    /\ error = null
    /\ searchTerm = <<>>
    /\ pending = <<>>
    /\ appliedLate = FALSE
    /\ downloaded = null

\* invocation pending[i] leaves the pending ones; those started before it
\* are overtaken
Settle(i) ==
    /\ pending' = [j \in 1..(i - 1) |-> [pending[j] EXCEPT !.overtaken = TRUE]]
                   \o SubSeq(pending, i + 1, Len(pending))
    /\ appliedLate' = pending[i].overtaken

\* handleFile up to its await, for the first file of a non-empty file list
\* (an empty list returns at once): the type check, then the read is started
HandleFile(file) ==
    IF ~isValidFileType(file)
    THEN /\ error' = InvalidTypeError
         /\ UNCHANGED <<selectedSheets, activeSheetIndex, fileMeta, searchTerm,
                        pending, appliedLate, downloaded>>
    ELSE /\ Len(pending) < MaxPending
         /\ pending' = Append(pending, [file |-> file, overtaken |-> FALSE])
         /\ UNCHANGED <<selectedSheets, activeSheetIndex, fileMeta, error,
                        searchTerm, appliedLate, downloaded>>

\* faulty variant: the catch block reports the error and keeps the workbook
CaughtKeepingWorkbook(message) ==
    /\ error' = ReadFailedError(message)
    /\ UNCHANGED <<selectedSheets, fileMeta, activeSheetIndex>>

\* the catch block of handleFile
Caught(message) ==
    /\ error' = ReadFailedError(message)
    /\ selectedSheets' = <<>>
    /\ fileMeta' = null
    /\ UNCHANGED activeSheetIndex

\* faulty variant: a loaded workbook leaves the active sheet index as it was
LoadedKeepingIndex(file, sheets) ==
    IF Len(sheets) = 0
    THEN /\ error' = EmptyDataError
         /\ selectedSheets' = <<>>
         /\ fileMeta' = null
         /\ UNCHANGED activeSheetIndex
    ELSE /\ selectedSheets' = sheets
         /\ fileMeta' = file
         /\ error' = null
         /\ UNCHANGED activeSheetIndex

\* faulty variant: the empty-data branch leaves the file metadata as it was
LoadedKeepingMetaOnEmpty(file, sheets) ==
    IF Len(sheets) = 0
    THEN /\ error' = EmptyDataError
         /\ selectedSheets' = <<>>
         /\ UNCHANGED <<fileMeta, activeSheetIndex>>
    ELSE /\ selectedSheets' = sheets
         /\ activeSheetIndex' = 0
         /\ fileMeta' = file
         /\ error' = null

\* handleFile after its await, when the sheets were built
Loaded(file, sheets) ==
    IF Len(sheets) = 0
    THEN /\ error' = EmptyDataError
         /\ selectedSheets' = <<>>
         /\ fileMeta' = null
         /\ UNCHANGED activeSheetIndex
    ELSE /\ selectedSheets' = sheets
         /\ activeSheetIndex' = 0
         /\ fileMeta' = file
         /\ error' = null

\* the read of invocation pending[i] fails (reader.onerror, or onload
\* without a target): the promise rejects and the catch block runs
ReadRejected(i) ==
    /\ i \in 1..Len(pending)
    /\ Caught(readErrorMessage)
    /\ Settle(i)
    /\ UNCHANGED <<searchTerm, downloaded>>

\* faulty variant: the result of an overtaken invocation is discarded
ReadResolvedUnlessOvertaken(i) ==
    /\ i \in 1..Len(pending)
    /\ IF pending[i].overtaken
       THEN UNCHANGED <<selectedSheets, activeSheetIndex, fileMeta, error>>
       ELSE IF ~pending[i].file.decodes
       THEN Caught(decodeErrorMessage)
       ELSE Loaded(pending[i].file, buildSheetData(pending[i].file.workbook))
    /\ Settle(i)
    /\ UNCHANGED <<searchTerm, downloaded>>

\* the read of invocation pending[i] resolves: XLSX.read, buildSheetData and
\* the state updates run to completion
ReadResolved(i) ==
    /\ i \in 1..Len(pending)
    /\ IF ~pending[i].file.decodes
       THEN Caught(decodeErrorMessage)
       ELSE Loaded(pending[i].file, buildSheetData(pending[i].file.workbook))
    /\ Settle(i)
    /\ UNCHANGED <<searchTerm, downloaded>>

\* a click on a button of the sheet list
SetActiveSheetIndex(index) ==
    /\ index \in 0..(Len(selectedSheets) - 1)
    /\ activeSheetIndex' = index
    /\ UNCHANGED <<selectedSheets, fileMeta, error, searchTerm, pending,
                   appliedLate, downloaded>>

\* typing in the search box, which is rendered while sheets are loaded
SetSearchTerm(term) ==
    /\ Len(selectedSheets) > 0
    /\ searchTerm' = term
    /\ UNCHANGED <<selectedSheets, activeSheetIndex, fileMeta, error, pending,
                   appliedLate, downloaded>>

\* the JSON button: currentSheet && downloadAsJson(currentSheet)
DownloadJson ==
    /\ currentSheet # undefined
    /\ downloaded' = downloadAsJson(currentSheet)
    /\ UNCHANGED <<selectedSheets, activeSheetIndex, fileMeta, error,
                   searchTerm, pending, appliedLate>>

\* the CSV button: currentSheet && downloadAsCsv(currentSheet)
DownloadCsv ==
    /\ currentSheet # undefined
    /\ downloaded' = downloadAsCsv(currentSheet)
    /\ UNCHANGED <<selectedSheets, activeSheetIndex, fileMeta, error,
                   searchTerm, pending, appliedLate>>

Step(files, terms) ==
    \/ \E file \in files : HandleFile(file)
    \/ \E i \in 1..MaxPending : ReadRejected(i)
    \/ \E i \in 1..MaxPending : ReadResolved(i)
    \/ \E index \in 0..(Len(selectedSheets) - 1) : SetActiveSheetIndex(index)
    \/ \E term \in terms : SetSearchTerm(term)
    \/ DownloadJson
    \/ DownloadCsv

Next == Step(UploadFiles, SearchTerms)

Spec == Init /\ [][Next]_vars

NextLarge == Step(LargeFiles, LargeSearchTerms)

SpecLarge == Init /\ [][NextLarge]_vars

\* buildSheetData over the generated workbooks: the state in which one
\* generated file has passed the type check and awaits its read
InitBuild ==
    /\ selectedSheets = <<>>
    /\ activeSheetIndex = 0
    /\ fileMeta = null
    /\ error = null
    /\ searchTerm = <<>>
    /\ \E file \in GeneratedFiles :
            pending = <<[file |-> file, overtaken |-> FALSE]>>
    /\ appliedLate = FALSE
    /\ downloaded = null

NextBuild == \E i \in 1..MaxPending : ReadResolved(i)

SpecBuild == InitBuild /\ [][NextBuild]_vars

(***************************** properties **********************************)
Min(a, b) == IF a < b THEN a ELSE b

\* the set of keys of a record, and the set of entries of a sequence
KeySet(record) == {record[m].key : m \in 1..Len(record)}
Range(seq) == {seq[i] : i \in 1..Len(seq)}

\* C1 as stated: an error panel and a loaded workbook never coexist.
C1_ErrorExcludesWorkbook ==
    ~(error # null /\ Len(selectedSheets) > 0)

\* C1 amended: a read failure, a decode failure and the empty-data error leave
\* no workbook and no file metadata behind; an error is shown next to a loaded
\* workbook only when it is the wrong-file-type error.
C1_FailedUploadClearsWorkbook ==
    /\ (error # null /\ error # InvalidTypeError)
          => (selectedSheets = <<>> /\ fileMeta = null)
    /\ (error # null /\ Len(selectedSheets) > 0) => error = InvalidTypeError

\* a read failure after a workbook had been loaded and its second sheet
\* selected
C1_Witness ==
    /\ error = ReadFailedError(readErrorMessage)
    /\ selectedSheets = <<>>
    /\ activeSheetIndex = 1

\* the name ends, ignoring case, in one of the four extensions
HasAllowedSuffix(name) ==
    \E ext \in { <<".","x","l","s","x">>, <<".","x","l","s">>,
                 <<".","c","s","v">>, <<".","o","d","s">> } :
        LET lower == toLowerCase(name)
        IN  /\ Len(lower) >= Len(ext)
            /\ \A j \in 1..Len(ext) :
                  lower[Len(lower) - Len(ext) + j] = ext[j]

\* the files of the user whose names do not end in an allowed extension
RejectedFiles == {file \in UploadFiles : ~HasAllowedSuffix(file.name)}

\* C2: an upload of a file without an allowed extension starts no read and
\* changes nothing but the error.
C2_InvalidUploadOnlySetsError ==
    [][\A file \in RejectedFiles :
          HandleFile(file)
             => /\ error' = InvalidTypeError
                /\ UNCHANGED <<selectedSheets, activeSheetIndex, fileMeta,
                               searchTerm, pending, downloaded>>]_vars

\* the rejection happened while the second sheet of a loaded workbook was
\* active and another read was still pending
C2_Witness ==
    /\ error = InvalidTypeError
    /\ fileMeta = DataFile
    /\ activeSheetIndex = 1
    /\ Len(pending) = 1

\* zero sheets, or a single sheet without data rows
IsEmptyWorkbook(workbook) ==
    \/ Len(workbook.SheetNames) = 0
    \/ /\ Len(workbook.SheetNames) = 1
       /\ Len(workbook.Sheets[workbook.SheetNames[1]]) <= 1

\* C3 as stated: when the read of a decodable file with an empty workbook
\* resolves, the upload ends with the empty-data error and nothing loaded.
C3_EmptyWorkbookIsAnError ==
    [][\A i \in 1..Len(pending) :
          (/\ pending[i].file.decodes
           /\ IsEmptyWorkbook(pending[i].file.workbook)
           /\ ReadResolved(i))
             => /\ error' = EmptyDataError
                /\ selectedSheets' = <<>>
                /\ fileMeta' = null]_vars

\* C4: while a workbook is loaded the active index selects one of its sheets,
\* and an upload that loads a workbook makes the first sheet active.
C4_ActiveSheetInBounds ==
    /\ [](Len(selectedSheets) > 0 =>
            /\ activeSheetIndex \in 0..(Len(selectedSheets) - 1)
            /\ currentSheet # undefined)
    /\ [][(Len(pending') < Len(pending) /\ fileMeta' # null)
             => activeSheetIndex' = 0]_vars

\* a one-sheet workbook is loaded after the second sheet of an earlier
\* workbook had been active (it was downloaded)
C4_Witness ==
    /\ fileMeta = BlankFile
    /\ activeSheetIndex = 0
    /\ downloaded # null
    /\ downloaded.download = NotesName \o <<".","j","s","o","n">>

\* what an invocation for this file writes when its read resolves
ResolvedOutcome(file) ==
    IF ~file.decodes
    THEN [sheets |-> <<>>, meta |-> null, error |-> ReadFailedError(decodeErrorMessage)]
    ELSE IF file.workbook.SheetNames = <<>>
    THEN [sheets |-> <<>>, meta |-> null, error |-> EmptyDataError]
    ELSE [sheets |-> buildSheetData(file.workbook), meta |-> file, error |-> null]

RejectedOutcome ==
    [sheets |-> <<>>, meta |-> null, error |-> ReadFailedError(readErrorMessage)]

WithoutMarks(entries) == [j \in 1..Len(entries) |-> entries[j].file]

\* C5: whenever a pending invocation completes, whatever the order in which
\* the invocations were started, the workbook, the file metadata and the
\* error become those of the completing invocation.
C5_LastCompletionWins ==
    [][Len(pending') < Len(pending) =>
          \E i \in 1..Len(pending) :
             /\ WithoutMarks(pending') =
                   SubSeq(WithoutMarks(pending), 1, i - 1)
                   \o SubSeq(WithoutMarks(pending), i + 1, Len(pending))
             /\ [sheets |-> selectedSheets', meta |-> fileMeta', error |-> error']
                   \in {ResolvedOutcome(pending[i].file), RejectedOutcome}]_vars

\* the workbook on screen is the one of an upload that was started first and
\* completed after a later one
C5_Witness ==
    /\ appliedLate
    /\ pending = <<>>
    /\ fileMeta = DataFile
    /\ selectedSheets = buildSheetData(DataFile.workbook)
    /\ error = null

\* The lower-case forms of the texts of the sheets and of the search terms
\* that hold a letter with another lower-case form, written out; every other
\* text of the sheets and terms is its own lower-case form.
LowerCaseForms ==
    { << <<"D","e","l","h","i">>, <<"d","e","l","h","i">> >>,
      << <<"D","E","L","H","I">>, <<"d","e","l","h","i">> >>,
      << <<"U+00C9","c","o","l","e">>, <<"U+00E9","c","o","l","e">> >>,
      << <<"U+03A3">>, <<"U+03C3">> >>,
      << <<"U+039F","U+03A3">>, <<"U+03BF","U+03C2">> >>,
      << <<"U+0391","U+10EC5","U+03A3">>, <<"U+03B1","U+10EC5","U+03C2">> >>,
      << <<"U+0391","U+1171E","U+03A3">>, <<"U+03B1","U+1171E","U+03C3">> >>,
      << <<"U+1C89","U+03A3">>, <<"U+1C8A","U+03C2">> >>,
      << <<"U+0295","U+03A3">>, <<"U+0295","U+03C3">> >> }

LowerCased(text) ==
    IF \E p \in LowerCaseForms : p[1] = text
    THEN (CHOOSE p \in LowerCaseForms : p[1] = text)[2]
    ELSE text

\* a record matches a search term: any record when the term is empty,
\* otherwise one with a field whose text, lower-cased, contains the
\* lower-cased term (strings are compared by their code units)
Matches(record, term) ==
    \/ term = <<>>
    \/ \E m \in 1..Len(record) :
          LET text   == toCodeUnits(LowerCased(toString(record[m].value)))
              needle == toCodeUnits(LowerCased(term))
          IN  \E at \in 0..(Len(text) - Len(needle)) :
                 \A j \in 1..Len(needle) : text[at + j] = needle[j]

\* C6: the preview is the first min(200, k) of the k matching records of the
\* active sheet, in their order, and never longer than 200.
C6_PreviewIsCappedMatches ==
    currentSheet # undefined =>
        LET matching == SelectSeq(currentSheet.rows,
                                  LAMBDA record : Matches(record, searchTerm))
            preview  == filteredRows
        IN  /\ Len(preview) = Min(maxRowsPreview, Len(matching))
            /\ Len(preview) <= maxRowsPreview
            /\ preview = SubSeq(matching, 1, Len(preview))

\* a search that every record of a sheet of more than 200 records matches
C6_Witness ==
    /\ currentSheet # undefined
    /\ currentSheet.rowCount > maxRowsPreview
    /\ searchTerm = <<"1">>
    /\ Len(filteredRows) = maxRowsPreview

\* the body of a JSON download holds the records, one object each, with
\* every field under its key
JsonHolds(body, records) ==
    /\ Len(body) = Len(records)
    /\ \A i \in 1..Len(records) :
          /\ Len(body[i]) = Len(records[i])
          /\ \A m \in 1..Len(records[i]) :
                \E b \in 1..Len(body[i]) :
                   /\ body[i][b].key = records[i][m].key
                   /\ body[i][b].value.text = toString(records[i][m].value)

\* the body of a CSV download holds a header line and the records, one line
\* each, with every field in the column of its key
CsvHolds(body, records) ==
    /\ Len(body) = Len(records) + 1
    /\ \A i \in 1..Len(records) :
          \A m \in 1..Len(records[i]) :
             \E c \in 1..Len(body[1]) :
                /\ body[1][c] = csvField(records[i][m].key)
                /\ body[i + 1][c] = csvField(toString(records[i][m].value))

\* C7: every JSON or CSV download, whatever the search term is and whatever
\* the preview shows at that moment, is named after the active sheet and
\* holds every record of it.
C7_ExportIsFullSheet ==
    [][downloaded' # downloaded =>
          /\ currentSheet # undefined
          /\ downloaded'.download \in
                {currentSheet.name \o <<".","j","s","o","n">>,
                 currentSheet.name \o <<".","c","s","v">>}
          /\ IF downloaded'.type = "application/json"
             THEN JsonHolds(downloaded'.body, currentSheet.rows)
             ELSE CsvHolds(downloaded'.body, currentSheet.rows)]_vars

\* a CSV download of all records of the large sheet while the search term
\* leaves the preview empty
C7_Witness ==
    /\ downloaded # null
    /\ downloaded.type = "text/csv"
    /\ Len(downloaded.body) = maxRowsPreview + ExtraRows + 1
    /\ fileMeta = BigFile
    /\ searchTerm = <<"d","e","l","h","i">>
    /\ Len(filteredRows) = 0

\* C8 as stated: the counts are the lengths, and every record has exactly
\* the keys in headers: the header of every position is a key of the record
\* and the record has no other key.
C8_RecordKeysAreHeaders ==
    \A k \in 1..Len(selectedSheets) :
        LET sheet == selectedSheets[k]
        IN  /\ sheet.rowCount = Len(sheet.rows)
            /\ sheet.columnCount = Len(sheet.headers)
            /\ \A i \in 1..Len(sheet.rows) :
                  /\ \A p \in 1..Len(sheet.headers) :
                        sheet.headers[p] \in KeySet(sheet.rows[i])
                  /\ KeySet(sheet.rows[i]) \subseteq Range(sheet.headers)

\* t is s without its leading and trailing white space
IsTrimOf(t, s) ==
    /\ t = <<>> \/ (t[1] \notin WhiteSpace /\ t[Len(t)] \notin WhiteSpace)
    /\ \E lead \in 0..(Len(s) - Len(t)) :
          /\ t = SubSeq(s, lead + 1, lead + Len(t))
          /\ \A j \in 1..lead : s[j] \in WhiteSpace
          /\ \A j \in (lead + Len(t) + 1)..Len(s) : s[j] \in WhiteSpace

\* the text of a first-row cell: nothing for an absent cell
CellText(cell) == IF cell.t = "nullish" THEN <<>> ELSE toString(cell)

\* C9: the header at position i (0-based) is the trimmed text of first-row
\* cell i when that is not empty, and otherwise "Column <i+1>".
C9_HeaderSynthesis ==
    fileMeta # null =>
        \A k \in 1..Len(selectedSheets) :
            LET raw == fileMeta.workbook.Sheets[selectedSheets[k].name]
                headers == selectedSheets[k].headers
            IN  Len(raw) >= 1 =>
                  /\ Len(headers) = Len(raw[1])
                  /\ \A i \in 0..(Len(raw[1]) - 1) :
                        \/ /\ headers[i + 1] # <<>>
                           /\ IsTrimOf(headers[i + 1], CellText(raw[1][i + 1]))
                        \/ /\ IsTrimOf(<<>>, CellText(raw[1][i + 1]))
                           /\ headers[i + 1] = ColumnLabel \o numberToString(i + 1)

\* the header row ["Name", "", "Age"] became ["Name", "Column 2", "Age"]
C9_Witness ==
    /\ fileMeta # null
    /\ fileMeta.workbook.Sheets[Sheet1Name] = CitiesRows
    /\ selectedSheets[1].headers =
          << <<"N","a","m","e">>, <<"C","o","l","u","m","n"," ","2">>,
             <<"A","g","e">> >>

\* C10: the file metadata is present exactly while a workbook is loaded, and
\* it is the file from which the loaded sheets were built.
C10_MetaMatchesWorkbook ==
    /\ fileMeta # null <=> Len(selectedSheets) > 0
    /\ fileMeta # null =>
          /\ fileMeta.decodes
          /\ selectedSheets = buildSheetData(fileMeta.workbook)

\* a workbook loaded by an overtaken upload while another read is pending
C10_Witness ==
    /\ appliedLate
    /\ fileMeta = BlankFile
    /\ Len(pending) = 1
    /\ pending[1].file = DataFile

====
